---- MODULE Spec2Model ----
(***************************************************************************)
(* Verification model of Simplifi-IQ:                                      *)
(*   Task 2/scrape_summarize.py : simple_extractive_summary,               *)
(*                                call_gemini_api, summarize_urls          *)
(*   Task 1/analyze_logs.py and analyze_logs.py : analyze                  *)
(* Python str values are sequences of one-character strings, so that the   *)
(* regular expressions of the source are computed character by character.  *)
(* The two variants of analyze_logs.py compute the same four tables; the    *)
(* model follows analyze_logs.py at the top of the repository.              *)
(***************************************************************************)
EXTENDS Integers, Sequences, FiniteSets, TLC

VARIABLES
    \* simple_extractive_summary: arguments, returned value, position
    s_text, s_max, s_out, s_pc,
    \* call_gemini_api: arguments, the HTTP response, returned value, position
    a_key, a_url, a_resp, a_ret, a_pc,
    \* summarize_urls: arguments
    urls, use_gemini, gemini_api_key, gemini_api_url,
    \* summarize_urls: loop index (from 1), position, locals, the results list
    i, pc, info, summary, notes, results,
    \* history: the effects in the order they happened, and per recorded URL
    \* what its fetch and its client call returned
    events, hist,
    \* analyze: the table df (read from the CSV, then with its two columns
    \* coerced), its copy df_original, the returned summary, position
    df, df_original, out, l_pc

sumVars == <<s_text, s_max, s_out, s_pc>>
apiVars == <<a_key, a_url, a_resp, a_ret, a_pc>>
urlArgs == <<urls, use_gemini, gemini_api_key, gemini_api_url>>
urlVars == <<urlArgs, i, pc, info, summary, notes, results, events, hist>>
logVars == <<df, df_original, out, l_pc>>
vars == <<sumVars, apiVars, urlVars, logVars>>

(***************************************************************************)
(* Bounds of the model.                                                    *)
(***************************************************************************)
MaxSents == 4
MaxK == 2
MaxUrls == 2
MaxRows == 4

(***************************************************************************)
(* Character classes of Python's re module and str methods, on ASCII text  *)
(* (code points 1..127).                                                   *)
(***************************************************************************)
Uppers ==
    <<"A","B","C","D","E","F","G","H","I","J","K","L","M",
      "N","O","P","Q","R","S","T","U","V","W","X","Y","Z">>
Lowers ==
    <<"a","b","c","d","e","f","g","h","i","j","k","l","m",
      "n","o","p","q","r","s","t","u","v","w","x","y","z">>
Digits == <<"0", "1", "2", "3", "4", "5", "6", "7", "8", "9">>
\* the ASCII characters outside the printable range space..~ : code points
\* 1..31 in order, then 127 (entry k has code k, the last one 127); a str of
\* the model holds no NUL character
ControlChars ==
    <<"", "", "", "", "", "", "", "", "\t", "\n",
      "", "\f", "\r", "", "", "", "", "", "", "", "",
      "", "", "", "", "", "", "", "", "", "", "">>
IsControlChar(c) == \E k \in 1..32 : ControlChars[k] = c
CodeOf(c) ==
    LET k == CHOOSE j \in 1..32 : ControlChars[j] = c
    IN  IF k = 32 THEN 127 ELSE k
\* the ASCII characters str.isspace() holds, which are those \s matches and
\* str.strip() removes: space, codes 9..13 (\t \n \v \f \r) and 28..31
SpaceChars == {" "} \cup { ControlChars[k] : k \in (9..13) \cup (28..31) }
TermChars == {".", "!", "?"}

IsUpper(c) == \E k \in 1..26 : Uppers[k] = c
IsLower(c) == \E k \in 1..26 : Lowers[k] = c
IsDigit(c) == \E k \in 1..10 : Digits[k] = c

\* str.lower() on one character
LowerChar(c) ==
    IF IsUpper(c) THEN Lowers[CHOOSE k \in 1..26 : Uppers[k] = c] ELSE c

\* str.lower()
Lower(t) == [k \in 1..Len(t) |-> LowerChar(t[k])]

\* \w
IsWordChar(c) == IsUpper(c) \/ IsLower(c) \/ IsDigit(c) \/ c = "_"

\* \s
IsSpaceChar(c) == c \in SpaceChars

\* [.!?]
IsTermChar(c) == c \in TermChars

Min(a, b) == IF a < b THEN a ELSE b
Max(a, b) == IF a > b THEN a ELSE b

\* seq[:n] of Python, n possibly negative
Slice(seq, n) ==
    IF n >= 0 THEN SubSeq(seq, 1, Min(n, Len(seq)))
    ELSE SubSeq(seq, 1, Max(Len(seq) + n, 0))

\* first index >= k of t that is not whitespace (Len(t)+1 if none): the end of \s+
RECURSIVE SkipSpace(_, _)
SkipSpace(t, k) ==
    IF k > Len(t) \/ ~IsSpaceChar(t[k]) THEN k ELSE SkipSpace(t, k + 1)

\* re.split(r'(?<=[.!?])\s+', t), scanning from position k of the piece begun at start
RECURSIVE SplitRec(_, _, _)
SplitRec(t, start, k) ==
    IF k > Len(t) THEN << SubSeq(t, start, Len(t)) >>
    ELSE IF k > 1 /\ IsTermChar(t[k - 1]) /\ IsSpaceChar(t[k])
         THEN LET j == SkipSpace(t, k)
              IN  << SubSeq(t, start, k - 1) >> \o SplitRec(t, j, j)
         ELSE SplitRec(t, start, k + 1)

SplitSentences(t) == SplitRec(t, 1, 1)

\* first index >= k of t that is not a word character: the end of \w+
RECURSIVE SkipWord(_, _)
SkipWord(t, k) ==
    IF k > Len(t) \/ ~IsWordChar(t[k]) THEN k ELSE SkipWord(t, k + 1)

\* re.findall(r'\w+', t) from position k
RECURSIVE FindWordsRec(_, _)
FindWordsRec(t, k) ==
    IF k > Len(t) THEN << >>
    ELSE IF IsWordChar(t[k])
         THEN LET j == SkipWord(t, k)
              IN  << SubSeq(t, k, j - 1) >> \o FindWordsRec(t, j)
         ELSE FindWordsRec(t, k + 1)

FindWords(t) == FindWordsRec(Lower(t), 1)

\* the stopword list of simple_extractive_summary
stopwords ==
    {
      <<"t","h","e">>, <<"i","s">>, <<"i","n">>, <<"a","n","d">>,
      <<"t","o">>, <<"o","f">>, <<"a">>, <<"f","o","r">>,
      <<"o","n">>, <<"t","h","a","t">>, <<"w","i","t","h">>, <<"a","s">>,
      <<"a","r","e">>, <<"w","a","s">>, <<"i","t">>, <<"a","t">>,
      <<"b","y">>, <<"a","n">>, <<"b","e">>, <<"t","h","i","s">>,
      <<"o","r">>, <<"f","r","o","m">> }

\* the words Counter counts
Counted(words) ==
    SelectSeq(words, LAMBDA w : w \notin stopwords /\ Len(w) > 2)

\* number of occurrences of w in the sequence ws
RECURSIVE CountIn(_, _)
CountIn(ws, w) ==
    IF ws = << >> THEN 0
    ELSE (IF Head(ws) = w THEN 1 ELSE 0) + CountIn(Tail(ws), w)

\* freqs.get(w, 0), freqs being Counter(counted)
FreqGet(counted, w) == CountIn(counted, w)

\* sum(freqs.get(w,0) for w in s_words)
RECURSIVE SumFreq(_, _)
SumFreq(counted, s_words) ==
    IF s_words = << >> THEN 0
    ELSE FreqGet(counted, Head(s_words)) + SumFreq(counted, Tail(s_words))

\* the score of sentence s
Score(counted, s) == SumFreq(counted, FindWords(s))

\* sent_scores: the list of (score, sentence) pairs
SentScores(counted, sentences) ==
    [k \in 1..Len(sentences) |-> << Score(counted, sentences[k]), sentences[k] >>]

\* insertion of pair p into a list sorted by score descending, after its equals
RECURSIVE InsertDesc(_, _)
InsertDesc(sorted, p) ==
    IF sorted = << >> THEN << p >>
    ELSE IF Head(sorted)[1] >= p[1]
         THEN << Head(sorted) >> \o InsertDesc(Tail(sorted), p)
         ELSE << p >> \o sorted

\* sorted(pairs, key=lambda x: x[0], reverse=True): stable
RECURSIVE SortedDescRec(_, _)
SortedDescRec(pairs, acc) ==
    IF pairs = << >> THEN acc
    ELSE SortedDescRec(Tail(pairs), InsertDesc(acc, Head(pairs)))

SortedDesc(pairs) == SortedDescRec(pairs, << >>)

\* ' '.join(parts)
RECURSIVE Join(_)
Join(parts) ==
    IF parts = << >> THEN << >>
    ELSE IF Len(parts) = 1 THEN parts[1]
         ELSE parts[1] \o << " " >> \o Join(Tail(parts))

\* str.strip()
RECURSIVE LStrip(_)
LStrip(t) ==
    IF t # << >> /\ IsSpaceChar(Head(t)) THEN LStrip(Tail(t)) ELSE t

RECURSIVE RStrip(_)
RStrip(t) ==
    IF t # << >> /\ IsSpaceChar(t[Len(t)])
    THEN RStrip(SubSeq(t, 1, Len(t) - 1)) ELSE t

Strip(t) == RStrip(LStrip(t))

\* top_set and the comprehension [s for s in sentences if s in top_set]
Ordered(sentences, top) ==
    LET top_set == { top[k][2] : k \in 1..Len(top) }
    IN  SelectSeq(sentences, LAMBDA s : s \in top_set)

\* simple_extractive_summary(text, max_sentences)
simple_extractive_summary(text, max_sentences) ==
    IF text = << >> THEN << >>
    ELSE LET sentences == SplitSentences(text)
         IN  IF Len(sentences) <= max_sentences
             THEN Strip(Join(sentences))
             ELSE LET freqs == Counted(FindWords(text))
                  IN  IF freqs = << >>
                      THEN Strip(Join(Slice(sentences, max_sentences)))
                      ELSE LET top == Slice(SortedDesc(SentScores(freqs, sentences)),
                                            max_sentences)
                           IN  Strip(Join(Ordered(sentences, top)))

(***************************************************************************)
(* Python values that are not plain str: None, str, int, list, dict, each  *)
(* under its own tag.  A dict is a function from its keys to its values.   *)
(***************************************************************************)
None == [t |-> "none"]
Str(s) == [t |-> "str", s |-> s]
Num(n) == [t |-> "int", n |-> n]
List(l) == [t |-> "list", l |-> l]
Dict(d) == [t |-> "dict", d |-> d]
EmptyDict == Dict([k \in {} |-> None])

\* bool(v): the truth value Python's `if v` and `not v` use
Truthy(v) ==
    CASE v.t = "none" -> FALSE
      [] v.t = "str" -> v.s # << >>
      [] v.t = "int" -> v.n # 0
      [] v.t = "list" -> v.l # << >>
      [] v.t = "dict" -> DOMAIN v.d # {}
      [] OTHER -> TRUE

\* v.get(key, default); a value that is no dict has no get: AttributeError
HasGet(v) == v.t = "dict"
Get(v, key, default) == IF key \in DOMAIN v.d THEN v.d[key] ELSE default

\* the keys call_gemini_api looks up
KSummary == <<"s","u","m","m","a","r","y">>
KChoices == <<"c","h","o","i","c","e","s">>
KOutput == <<"o","u","t","p","u","t">>
KText == <<"t","e","x","t">>
KMessage == <<"m","e","s","s","a","g","e">>
KContent == <<"c","o","n","t","e","n","t">>

(***************************************************************************)
(* An HTTP response: failed (transport error or error status, which        *)
(* requests.post / raise_for_status raise), its body text, and what        *)
(* resp.json() makes of the body (Invalid: it raises).                     *)
(***************************************************************************)
Invalid == [t |-> "invalid"]

\* the outcome of the choices branch: data['choices'][0].get('text') or
\* data['choices'][0].get('message',{}).get('content'); an AttributeError is
\* caught by the except clause, which returns None
ChoicesBranch(c0) ==
    IF ~HasGet(c0) THEN None
    ELSE LET text == Get(c0, KText, None)
         IN  IF Truthy(text) THEN text
             ELSE LET message == Get(c0, KMessage, EmptyDict)
                  IN  IF ~HasGet(message) THEN None
                      ELSE Get(message, KContent, None)

\* the decoding of a parsed response body
Decode(data, text) ==
    IF data.t = "dict" /\ KSummary \in DOMAIN data.d
    THEN data.d[KSummary]
    ELSE IF /\ data.t = "dict"
            /\ KChoices \in DOMAIN data.d
            /\ data.d[KChoices].t = "list"
            /\ Len(data.d[KChoices].l) > 0
         THEN ChoicesBranch(data.d[KChoices].l[1])
         ELSE IF /\ data.t = "dict"
                 /\ KOutput \in DOMAIN data.d
                 /\ data.d[KOutput].t = "str"
              THEN data.d[KOutput]
              ELSE Str(text)

\* call_gemini_api(prompt, api_key, api_url), resp being what the endpoint
\* answers to the one POST
call_gemini_api(api_key, api_url, resp) ==
    IF ~Truthy(api_key) \/ ~Truthy(api_url) THEN None
    ELSE IF resp.failed THEN None
         ELSE IF resp.data.t = "invalid" THEN None
              ELSE Decode(resp.data, resp.text)

(***************************************************************************)
(* Inputs of call_gemini_api: credentials, and the responses an endpoint   *)
(* can give.  The body text of a JSON response is the serialisation of the *)
(* value resp.json() returns for it.                                       *)
(***************************************************************************)
KeyOrder == <<KSummary, KChoices, KOutput, KText, KMessage, KContent>>
HexDigits == <<"0","1","2","3","4","5","6","7","8","9","a","b","c","d","e","f">>

\* one character inside a JSON string: quote, backslash and the characters
\* outside space..~ are escaped
EscapeChar(c) ==
    CASE c = "\"" -> <<"\\", "\"">>
      [] c = "\\" -> <<"\\", "\\">>
      [] c = "\n" -> <<"\\", "n">>
      [] c = "\r" -> <<"\\", "r">>
      [] c = "\t" -> <<"\\", "t">>
      [] c = "\f" -> <<"\\", "f">>
      [] c = ControlChars[8] -> <<"\\", "b">>
      [] OTHER ->
            IF IsControlChar(c)
            THEN <<"\\", "u", "0", "0",
                   HexDigits[(CodeOf(c) \div 16) + 1], HexDigits[(CodeOf(c) % 16) + 1]>>
            ELSE <<c>>

RECURSIVE Escaped(_)
Escaped(s) == IF s = << >> THEN << >> ELSE EscapeChar(Head(s)) \o Escaped(Tail(s))

\* the JSON text of a str
Quoted(s) == <<"\"">> \o Escaped(s) \o <<"\"">>

\* the decimal digit of n in 0..9
Digit(n) == Digits[n + 1]

\* the JSON text of an int: its decimal digits, a minus sign first if negative
RECURSIVE IntText(_)
IntText(n) ==
    IF n < 0 THEN <<"-">> \o IntText(-n)
    ELSE IF n < 10 THEN <<Digit(n)>>
         ELSE IntText(n \div 10) \o <<Digit(n % 10)>>

RECURSIVE Dumps(_), DumpsList(_), DumpsItems(_, _)
\* the JSON text of value v
Dumps(v) ==
    CASE v.t = "none" -> <<"n","u","l","l">>
      [] v.t = "str" -> Quoted(v.s)
      [] v.t = "int" -> IntText(v.n)
      [] v.t = "list" -> <<"[">> \o DumpsList(v.l) \o <<"]">>
      [] v.t = "dict" ->
            <<"{">>
            \o DumpsItems(v.d, SelectSeq(KeyOrder, LAMBDA k : k \in DOMAIN v.d))
            \o <<"}">>
DumpsList(l) ==
    IF l = << >> THEN << >>
    ELSE Dumps(Head(l)) \o (IF Len(l) > 1 THEN <<",">> ELSE << >>)
         \o DumpsList(Tail(l))
DumpsItems(d, keys) ==
    IF keys = << >> THEN << >>
    ELSE Quoted(Head(keys)) \o <<":">> \o Dumps(d[Head(keys)])
         \o (IF Len(keys) > 1 THEN <<",">> ELSE << >>)
         \o DumpsItems(d, Tail(keys))

ApiKeys == {None, Str(<< >>), Str(<<"k">>)}
ApiUrls == {None, Str(<< >>), Str(<<"e">>)}

MessageM == Dict((KContent :> Str(<<"M">>)))
ChoiceElems ==
    { EmptyDict,
      Dict((KText :> Str(<<"T">>))),
      Dict((KMessage :> MessageM)),
      Dict((KText :> Str(<< >>)) @@ (KMessage :> MessageM)),
      Dict((KMessage :> Str(<<"x">>))),
      Str(<<"x">>) }

SummaryVals == {None, Str(<< >>), Str(<<"S">>)}
ChoicesVals == {List(<< >>), Str(<<"c">>)} \cup { List(<<c>>) : c \in ChoiceElems }
OutputVals ==
    { Str(<<"O">>), Num(1), Num(-20),
      List(<< Str(<<"a", "\"", "\\", "\n", ControlChars[1]>>) >>) }

ValsOf(k) ==
    CASE k = KSummary -> SummaryVals
      [] k = KChoices -> ChoicesVals
      [] k = KOutput -> OutputVals

TopKeys == {KSummary, KChoices, KOutput}

DictData ==
    { Dict(f) : f \in UNION { { g \in [K -> SummaryVals \cup ChoicesVals \cup OutputVals] :
                                  \A k \in K : g[k] \in ValsOf(k) } :
                              K \in SUBSET TopKeys } }

JsonResponses ==
    { [failed |-> FALSE, text |-> Dumps(d), data |-> d] :
        d \in DictData \cup {List(<< >>)} }

Responses ==
    JsonResponses
    \cup { [failed |-> TRUE, text |-> << >>, data |-> Invalid],
           [failed |-> FALSE, text |-> <<"o","k">>, data |-> Invalid] }

(***************************************************************************)
(* Inputs of the summarizer: texts made of up to MaxSents sentences of a   *)
(* small vocabulary, joined by one space.                                  *)
(***************************************************************************)
SentBig == <<"b","i","g"," ","b","i","g",".">>
SentFoo == <<"F","o","o",".">>
SentTheFoo == <<"T","h","e"," ","f","o","o","!">>
SentZz == <<"z","z","?">>
SentA == <<"A",".">>

Vocabulary == {SentBig, SentFoo, SentTheFoo, SentZz, SentA}

SentenceLists == UNION { [1..n -> Vocabulary] : n \in 0..MaxSents }

\* line ends and page breaks between two sentences: CR, CR LF, form feed and
\* space, vertical tab
Separators == { <<"\r">>, <<"\r", "\n">>, <<"\f", " ">>, <<ControlChars[11]>> }
SeparatedTexts == { a \o sep \o b : a \in Vocabulary, b \in Vocabulary, sep \in Separators }

Texts == { Join(sl) : sl \in SentenceLists } \cup SeparatedTexts

\* the other components at rest
UrlIdle ==
    /\ urls = << >> /\ use_gemini = FALSE
    /\ gemini_api_key = None /\ gemini_api_url = None
    /\ i = 1 /\ pc = "idle" /\ info = None /\ summary = None /\ notes = ""
    /\ results = << >> /\ events = << >> /\ hist = << >>
ApiIdle == a_key = None /\ a_url = None /\ a_resp = None /\ a_ret = None /\ a_pc = "idle"
LogIdle == df = << >> /\ df_original = << >> /\ out = None /\ l_pc = "idle"
SumIdle == s_text = << >> /\ s_max = 3 /\ s_out = << >> /\ s_pc = "idle"

(***************************************************************************)
(* Pages.  fetch_page returns None on any failure, else the markup, which  *)
(* may be empty.  A markup text is given by what BeautifulSoup finds in    *)
(* it: the string of the first title element (None: no title), the content *)
(* of the description meta element (None: none), and get_text(' ').        *)
(***************************************************************************)
Html(title, meta, text) == [t |-> "html", title |-> title, meta |-> meta, text |-> text]

PreviewLen == 800
DefaultMaxSentences == 3

\* re.sub(r'\s+', ' ', t)
RECURSIVE CollapseSpace(_, _)
CollapseSpace(t, k) ==
    IF k > Len(t) THEN << >>
    ELSE IF IsSpaceChar(t[k])
         THEN << " " >> \o CollapseSpace(t, SkipSpace(t, k))
         ELSE << t[k] >> \o CollapseSpace(t, k + 1)

\* extract_text_and_meta(html)
extract_text_and_meta(html) ==
    LET title == IF html.title # None THEN Strip(html.title.s) ELSE << >>
        meta_description == IF html.meta # None THEN Strip(html.meta.s) ELSE << >>
        text == Strip(CollapseSpace(html.text, 1))
    IN  [ title |-> title,
          meta_description |-> meta_description,
          text_preview |-> Slice(text, PreviewLen),
          full_text |-> text ]

\* FailedRecord with the notes left unset
FailedRecordNoNotes(url) ==
    [ url |-> url, title |-> << >>, meta_description |-> << >>,
      summary |-> Str(<< >>), notes |-> "" ]

\* the record appended for a URL whose fetch failed
FailedRecord(url) ==
    [ url |-> url, title |-> << >>, meta_description |-> << >>,
      summary |-> Str(<< >>), notes |-> "fetch_failed" ]

\* the record appended for a fetched URL
ResultRecord(url, title, meta_description, sum, nts) ==
    [ url |-> url, title |-> title, meta_description |-> meta_description,
      summary |-> sum, notes |-> nts ]

\* the test `if not html`
FetchFailed(html) == ~Truthy(html)

\* UseExternal without the test of the flag
UseExternalIgnoringFlag(use, key, url) == Truthy(key) /\ Truthy(url)

\* the test `if use_gemini and gemini_api_key and gemini_api_url`
UseExternal(use, key, url) == use /\ Truthy(key) /\ Truthy(url)

\* ClientSucceeded as `if summary is not None`
ClientReturnedSomething(ret) == ret.t # "none"

\* the test `if summary` on what the client returned
ClientSucceeded(ret) == Truthy(ret)

\* summary and notes after the external call returned ret
AfterCall(ret, preview) ==
    IF ClientSucceeded(ret)
    THEN [summary |-> ret, notes |-> "generated_by_gemini"]
    ELSE [summary |-> Str(simple_extractive_summary(preview, DefaultMaxSentences)),
          notes |-> "gemini_failed_fallback_extractive"]

\* summary and notes without the external call
LocalOnly(preview) ==
    [summary |-> Str(simple_extractive_summary(preview, DefaultMaxSentences)),
     notes |-> "no_gemini_local_extractive"]

(***************************************************************************)
(* Inputs of summarize_urls.                                               *)
(***************************************************************************)
UrlNames == {"u1", "u2"}
UrlLists == UNION { [1..n -> UrlNames] : n \in 0..MaxUrls }

PageLong ==
    Html(Str(<<" ","T","1","\r","\n">>), Str(<<"m","1">>),
         SentBig \o <<"\f"," ">> \o SentFoo \o <<" ">> \o SentFoo \o <<"\r","\n">>
         \o SentZz \o <<" ">> \o SentA)
PageShort == Html(None, None, <<" ">> \o SentA)
Pages == {PageLong, PageShort}

FetchOutcomes == {None, Str(<< >>)} \cup Pages

ClientResponses ==
    { r \in Responses :
        \/ r.failed
        \/ r.data \in { Dict((KSummary :> Str(<<"S">>))),
                        Dict((KSummary :> Str(<< >>))),
                        Dict((KChoices :> List(<<EmptyDict>>))),
                        List(<< >>) } }

(***************************************************************************)
(* summarize_urls as a state machine.  pc is the position in the loop body *)
(* for urls[i]: "fetch" (loop head), "summarize" (line 193), "append"      *)
(* (line 204), "sleep" (line 213), and "returned" after the loop.          *)
(***************************************************************************)
UrlInit ==
    /\ urls \in UrlLists
    /\ use_gemini \in BOOLEAN
    /\ gemini_api_key \in ApiKeys
    /\ gemini_api_url \in {None, Str(<<"e">>)}
    /\ i = 1
    /\ pc = "fetch"
    /\ info = None
    /\ summary = None
    /\ notes = ""
    /\ results = << >>
    /\ events = << >>
    /\ hist = << >>

\* fetch_page returns nothing: the failure record is appended, `continue`
FetchNone ==
    /\ pc = "fetch"
    /\ i <= Len(urls)
    /\ \E html \in FetchOutcomes :
          /\ FetchFailed(html)
          /\ results' = Append(results, FailedRecord(urls[i]))
          /\ hist' = Append(hist, [html |-> html, called |-> FALSE, ret |-> None])
    /\ events' = events \o << <<"fetch", i>>, <<"append", i>> >>
    /\ i' = i + 1
    /\ UNCHANGED <<urlArgs, pc, info, summary, notes>>
    /\ UNCHANGED <<sumVars, apiVars, logVars>>

\* fetch_page returns markup: extract_text_and_meta, summary = None, notes = ''
FetchOk ==
    /\ pc = "fetch"
    /\ i <= Len(urls)
    /\ \E html \in FetchOutcomes :
          /\ ~FetchFailed(html)
          /\ info' = extract_text_and_meta(html)
          /\ hist' = Append(hist, [html |-> html, called |-> FALSE, ret |-> None])
    /\ summary' = None
    /\ notes' = ""
    /\ events' = Append(events, <<"fetch", i>>)
    /\ pc' = "summarize"
    /\ UNCHANGED <<urlArgs, i, results>>
    /\ UNCHANGED <<sumVars, apiVars, logVars>>

\* the branch that calls the external client
SummarizeExternal ==
    /\ pc = "summarize"
    /\ UseExternal(use_gemini, gemini_api_key, gemini_api_url)
    /\ \E resp \in ClientResponses :
          LET ret == call_gemini_api(gemini_api_key, gemini_api_url, resp)
              branch == AfterCall(ret, info.text_preview)
          IN  /\ summary' = branch.summary
              /\ notes' = branch.notes
              /\ hist' = [hist EXCEPT ![i] = [@ EXCEPT !.called = TRUE, !.ret = ret]]
    /\ events' = Append(events, <<"call", i>>)
    /\ pc' = "append"
    /\ UNCHANGED <<urlArgs, i, info, results>>
    /\ UNCHANGED <<sumVars, apiVars, logVars>>

\* the else branch
SummarizeLocal ==
    /\ pc = "summarize"
    /\ ~UseExternal(use_gemini, gemini_api_key, gemini_api_url)
    /\ LET branch == LocalOnly(info.text_preview)
       IN  /\ summary' = branch.summary
           /\ notes' = branch.notes
    /\ pc' = "append"
    /\ UNCHANGED <<urlArgs, i, info, results, events, hist>>
    /\ UNCHANGED <<sumVars, apiVars, logVars>>

\* results.append({...})
AppendResult ==
    /\ pc = "append"
    /\ results' = Append(results,
                    ResultRecord(urls[i], info.title, info.meta_description,
                                 summary, notes))
    /\ events' = Append(events, <<"append", i>>)
    /\ pc' = "sleep"
    /\ UNCHANGED <<urlArgs, i, info, summary, notes, hist>>
    /\ UNCHANGED <<sumVars, apiVars, logVars>>

\* time.sleep(1.0), then the next iteration
Sleep ==
    /\ pc = "sleep"
    /\ events' = Append(events, <<"sleep", i>>)
    /\ i' = i + 1
    /\ pc' = "fetch"
    /\ UNCHANGED <<urlArgs, info, summary, notes, results, hist>>
    /\ UNCHANGED <<sumVars, apiVars, logVars>>

\* the loop is over: return results
Return ==
    /\ pc = "fetch"
    /\ i > Len(urls)
    /\ pc' = "returned"
    /\ UNCHANGED <<urlArgs, i, info, summary, notes, results, events, hist>>
    /\ UNCHANGED <<sumVars, apiVars, logVars>>

Init == UrlInit /\ SumIdle /\ ApiIdle /\ LogIdle

Next ==
    \/ FetchNone
    \/ FetchOk
    \/ SummarizeExternal
    \/ SummarizeLocal
    \/ AppendResult
    \/ Sleep
    \/ Return

Spec == Init /\ [][Next]_vars

(***************************************************************************)
(* analyze (analyze_logs.py, both variants).  A cell of the table is NaN   *)
(* (an empty CSV field) or a text; after coercion a start is a Timestamp   *)
(* or NaT and a duration_min a number or NaN.                              *)
(***************************************************************************)
NaN == [t |-> "nan"]
NaT == [t |-> "nat"]
Timestamp(y, m, d, h, mi, sec) ==
    [t |-> "ts", year |-> y, month |-> m, day |-> d,
     hour |-> h, minute |-> mi, second |-> sec]

\* pd.isna / Series.isna
IsNa(v) == v.t \in {"nan", "nat", "none"}

DigitVal(c) == (CHOOSE k \in 1..10 : Digits[k] = c) - 1

\* the value of a sequence of digits
RECURSIVE Decimal(_)
Decimal(ds) ==
    IF ds = << >> THEN 0
    ELSE 10 * Decimal(SubSeq(ds, 1, Len(ds) - 1)) + DigitVal(ds[Len(ds)])

AllDigits(ds) == ds # << >> /\ \A k \in 1..Len(ds) : IsDigit(ds[k])

\* the calendar: the days of month m of year y
IsLeap(y) == (y % 4 = 0 /\ y % 100 # 0) \/ y % 400 = 0
DaysInMonth(y, m) ==
    CASE m \in {4, 6, 9, 11} -> 30
      [] m = 2 -> (IF IsLeap(y) THEN 29 ELSE 28)
      [] OTHER -> 31

\* a <= b for two sequences of numbers of one length, compared item by item
RECURSIVE LexLeq(_, _)
LexLeq(a, b) ==
    IF a = << >> THEN TRUE
    ELSE IF Head(a) = Head(b) THEN LexLeq(Tail(a), Tail(b))
         ELSE Head(a) < Head(b)

\* the whole seconds between Timestamp.min (1677-09-21 00:12:43.145224193)
\* and Timestamp.max (2262-04-11 23:47:16.854775807) of the nanosecond
\* resolution; a date outside them is out of bounds, which errors='coerce'
\* turns into NaT
TimestampMin == <<1677, 9, 21, 0, 12, 44>>
TimestampMax == <<2262, 4, 11, 23, 47, 16>>
InBounds(ts) ==
    LET key == <<ts.year, ts.month, ts.day, ts.hour, ts.minute, ts.second>>
    IN  LexLeq(TimestampMin, key) /\ LexLeq(key, TimestampMax)

\* two digits at position k of c
TwoDigits(c, k) == AllDigits(SubSeq(c, k, k + 1))

\* the text has one of the forms YYYY-MM-DD, YYYY-MM-DD?HH:MM and
\* YYYY-MM-DD?HH:MM:SS, ? being T or a space
HasDateForm(c) ==
    /\ Len(c) \in {10, 16, 19}
    /\ AllDigits(SubSeq(c, 1, 4))
    /\ c[5] = "-" /\ TwoDigits(c, 6)
    /\ c[8] = "-" /\ TwoDigits(c, 9)
    /\ Len(c) >= 16 => /\ c[11] \in {"T", " "}
                       /\ TwoDigits(c, 12) /\ c[14] = ":" /\ TwoDigits(c, 15)
    /\ Len(c) = 19 => c[17] = ":" /\ TwoDigits(c, 18)

\* the fields the text of a date form names
DateFields(c) ==
    Timestamp(Decimal(SubSeq(c, 1, 4)), Decimal(SubSeq(c, 6, 7)),
              Decimal(SubSeq(c, 9, 10)),
              IF Len(c) >= 16 THEN Decimal(SubSeq(c, 12, 13)) ELSE 0,
              IF Len(c) >= 16 THEN Decimal(SubSeq(c, 15, 16)) ELSE 0,
              IF Len(c) = 19 THEN Decimal(SubSeq(c, 18, 19)) ELSE 0)

\* the fields name a moment of the calendar
OnCalendar(ts) ==
    /\ ts.year >= 1
    /\ ts.month \in 1..12
    /\ ts.day \in 1..DaysInMonth(ts.year, ts.month)
    /\ ts.hour \in 0..23 /\ ts.minute \in 0..59 /\ ts.second \in 0..59

\* a cell parsed on its own: NaT for a missing cell, for a text of no date
\* form, for fields that are no moment of the calendar (2024-13-45,
\* 2024-02-30) and for a moment out of bounds
ParseCell(cell) ==
    IF IsNa(cell) THEN NaT
    ELSE IF ~HasDateForm(cell.s) THEN NaT
         ELSE LET ts == DateFields(cell.s)
              IN  IF OnCalendar(ts) /\ InBounds(ts) THEN ts ELSE NaT

\* the format of a date text: its length and the separator of its time part
FormOf(c) == <<Len(c), IF Len(c) >= 16 THEN c[11] ELSE "">>

\* a format can be guessed from the cell: it is a date text naming a moment
\* of the calendar
Guessable(cell) ==
    ~IsNa(cell) /\ HasDateForm(cell.s) /\ OnCalendar(DateFields(cell.s))

\* the first cell of the column that is not missing (NaN if all are)
FirstNonNull(column) ==
    LET present == { k \in 1..Len(column) : ~IsNa(column[k]) }
    IN  IF present = {} THEN NaN
        ELSE column[CHOOSE k \in present : \A j \in present : k <= j]

\* every cell of the column parsed on its own
ParseColumnAlone(column) == [k \in 1..Len(column) |-> ParseCell(column[k])]

\* the column parsed by the format guessed from its first cell: a cell of
\* another format is NaT; with no format to guess, each cell on its own
ParseColumnByFirst(column) ==
    LET first == FirstNonNull(column)
    IN  IF ~Guessable(first) THEN ParseColumnAlone(column)
        ELSE [k \in 1..Len(column) |->
                IF /\ ~IsNa(column[k])
                   /\ HasDateForm(column[k].s)
                   /\ FormOf(column[k].s) = FormOf(first.s)
                THEN ParseCell(column[k])
                ELSE NaT]

\* pd.to_datetime(column, errors='coerce'): the columns the call can give.
\* No pandas version is fixed: pandas 1 parses each cell on its own, pandas 2
\* parses the column by the format of its first date.  The two agree on a
\* column whose dates are all written in one format.
ToDatetime(column) == { ParseColumnAlone(column), ParseColumnByFirst(column) }

\* pd.to_numeric(cell, errors='coerce') on whole numbers
ToNumeric(cell) ==
    IF IsNa(cell) THEN NaN
    ELSE LET c == cell.s
         IN  IF c # << >> /\ Head(c) = "-" /\ AllDigits(Tail(c))
             THEN Num(0 - Decimal(Tail(c)))
             ELSE IF AllDigits(c) THEN Num(Decimal(c)) ELSE NaN

\* the tables df can be after the two coercions, each row with its index label
Coerced(table) ==
    { [k \in 1..Len(table) |->
          [ index |-> k - 1,
            user |-> table[k].user,
            task_type |-> table[k].task_type,
            start |-> starts[k],
            duration_min |-> ToNumeric(table[k].duration_min) ]] :
      starts \in ToDatetime([k \in 1..Len(table) |-> table[k].start]) }

\* invalid_timestamp | invalid_duration | negative_duration
invalid_mask(r) ==
    \/ IsNa(r.start)
    \/ IsNa(r.duration_min)
    \/ (~IsNa(r.duration_min) /\ r.duration_min.n < 0)

\* the order of str values (lower-case names): by character, then by length
CharRank(c) == CHOOSE k \in 1..26 : Lowers[k] = c
RECURSIVE LessStr(_, _)
LessStr(a, b) ==
    IF b = << >> THEN FALSE
    ELSE IF a = << >> THEN TRUE
         ELSE IF Head(a) = Head(b) THEN LessStr(Tail(a), Tail(b))
              ELSE CharRank(Head(a)) < CharRank(Head(b))

\* the group keys of a groupby: the distinct non-missing values, sorted
RECURSIVE SortedKeys(_)
SortedKeys(S) ==
    IF S = {} THEN << >>
    ELSE LET least == CHOOSE a \in S : \A b \in S \ {a} : LessStr(a, b)
         IN  << least >> \o SortedKeys(S \ {least})

\* the sum of duration_min over the rows
RECURSIVE SumDuration(_)
SumDuration(rows) ==
    IF rows = << >> THEN 0
    ELSE Head(rows).duration_min.n + SumDuration(Tail(rows))

\* valid_df.groupby('user', as_index=False)['duration_min'].sum()
\*     .rename(columns={'duration_min':'total_minutes'})
time_per_user_of(valid_df) ==
    LET keys == SortedKeys({ valid_df[k].user.s : k \in
                   { j \in 1..Len(valid_df) : ~IsNa(valid_df[j].user) } })
    IN  [k \in 1..Len(keys) |->
            [ user |-> keys[k],
              total_minutes |->
                SumDuration(SelectSeq(valid_df,
                    LAMBDA r : ~IsNa(r.user) /\ r.user.s = keys[k])) ]]

\* valid_df.groupby('task_type', as_index=False)['duration_min'].sum()
\*     .rename(columns={'duration_min':'total_minutes'})
time_per_task_of(valid_df) ==
    LET keys == SortedKeys({ valid_df[k].task_type.s : k \in
                   { j \in 1..Len(valid_df) : ~IsNa(valid_df[j].task_type) } })
    IN  [k \in 1..Len(keys) |->
            [ task_type |-> keys[k],
              total_minutes |->
                SumDuration(SelectSeq(valid_df,
                    LAMBDA r : ~IsNa(r.task_type) /\ r.task_type.s = keys[k])) ]]

\* the orders of rows that are rows rearranged
Rearranged(rows) ==
    { [k \in 1..Len(rows) |-> rows[p[k]]] :
        p \in { q \in [1..Len(rows) -> 1..Len(rows)] :
                  \A a, b \in 1..Len(rows) : q[a] = q[b] => a = b } }

\* rows.sort_values('total_minutes', ascending=False): the sort kind is the
\* default, quicksort, which is not stable, so the order of rows with equal
\* totals is left to the numpy build.  Its scalar kernel sorts a short column
\* by insertion and keeps such rows in the order of time_per_task; its
\* vectorised kernels sort a short column by a network of exchanges and do
\* not.  Every descending order is a possible result.
SortValuesDescending(rows) ==
    { p \in Rearranged(rows) :
        \A k \in 1..(Len(p) - 1) : p[k].total_minutes >= p[k + 1].total_minutes }

\* .head(3).reset_index(drop=True)
TopN == 3
HeadRows(rows) == SubSeq(rows, 1, Min(TopN, Len(rows)))

\* the summaries analyze can make of the coerced table
Summary(coerced) ==
    LET invalid_rows == SelectSeq(coerced, invalid_mask)
        valid_df == SelectSeq(coerced, LAMBDA r : ~invalid_mask(r))
        time_per_user == time_per_user_of(valid_df)
        time_per_task == time_per_task_of(valid_df)
    IN  { [ time_per_user |-> time_per_user,
            time_per_task |-> time_per_task,
            top3_tasks |-> HeadRows(sorted),
            invalid_rows |-> invalid_rows ] :
          sorted \in SortValuesDescending(time_per_task) }

\* analyze(input_csv) on the table read from the CSV: the outcomes it can
\* have, each the copy of the table, the coerced table and the summary
analyze(table) ==
    UNION { { [ df_original |-> table, df |-> coerced, summary |-> made ] :
              made \in Summary(coerced) } :
            coerced \in Coerced(table) }

(***************************************************************************)
(* Inputs of analyze: tables of up to MaxRows rows of a catalogue.         *)
(***************************************************************************)
Alice == Str(<<"a","l","i","c","e">>)
Bob == Str(<<"b","o","b">>)
Build == Str(<<"b","u","i","l","d">>)
Docs == Str(<<"d","o","c","s">>)
Ops == Str(<<"o","p","s">>)
Test == Str(<<"t","e","s","t">>)
GoodDate == Str(<<"2","0","2","4","-","0","1","-","0","1","T","1","0",":","0","0">>)
GoodDateSpace == Str(<<"2","0","2","4","-","0","1","-","0","1"," ","1","0",":","0","0">>)
NoSuchDate == Str(<<"2","0","2","4","-","0","2","-","3","0","T","1","0",":","0","0">>)
BadDate == Str(<<"b","a","d","-","d","a","t","e">>)
Row(u, tt, st, d) == [user |-> u, task_type |-> tt, start |-> st, duration_min |-> d]

Catalogue ==
    { Row(Alice, Build, GoodDate, Str(<<"7">>)),
      Row(Alice, Build, BadDate, Str(<<"2","0">>)),
      Row(Bob, Test, GoodDate, Str(<<"-","5">>)),
      Row(Bob, Test, GoodDate, Str(<<"3","0">>)),
      Row(NaN, Docs, GoodDate, Str(<<"7">>)),
      Row(Bob, Ops, GoodDate, Str(<<"3","0">>)),
      Row(Alice, NaN, GoodDate, Str(<<"7">>)),
      Row(Bob, Docs, BadDate, Str(<<"x">>)),
      Row(Alice, Ops, GoodDate, NaN),
      Row(Bob, Ops, NoSuchDate, Str(<<"7">>)),
      Row(Alice, Docs, GoodDateSpace, Str(<<"7">>)) }

Tables == UNION { [1..n -> Catalogue] : n \in 0..MaxRows }

(***************************************************************************)
(* Specification of analyze alone.                                         *)
(***************************************************************************)
LogArgs ==
    /\ df \in Tables
    /\ df_original = << >>
    /\ out = None
    /\ l_pc = "call"

Analyze ==
    /\ l_pc = "call"
    /\ \E outcome \in analyze(df) :
          /\ df_original' = outcome.df_original
          /\ df' = outcome.df
          /\ out' = outcome.summary
    /\ l_pc' = "returned"
    /\ UNCHANGED <<sumVars, apiVars, urlVars>>

LogInit == LogArgs /\ SumIdle /\ ApiIdle /\ UrlIdle

LogNext == Analyze

SpecLogs == LogInit /\ [][LogNext]_vars

(***************************************************************************)
(* Properties of analyze.                                                  *)
(***************************************************************************)
\* the sum of total_minutes over the rows of an aggregate
RECURSIVE SumTotals(_)
SumTotals(rows) ==
    IF rows = << >> THEN 0
    ELSE Head(rows).total_minutes + SumTotals(Tail(rows))

\* record k of the input fails one of the three checks: its start did not
\* parse, its duration_min did not parse, or its duration_min is negative
FailsACheck(k) ==
    \/ IsNa(df[k].start)
    \/ IsNa(ToNumeric(df_original[k].duration_min))
    \/ ToNumeric(df_original[k].duration_min).n < 0

\* the durations of the input records from k on that pass the three checks,
\* summed
RECURSIVE SumValid(_)
SumValid(k) ==
    IF k > Len(df_original) THEN 0
    ELSE (IF FailsACheck(k) THEN 0
          ELSE ToNumeric(df_original[k].duration_min).n)
         + SumValid(k + 1)

\* C5: no invalid record adds to an aggregate, and the per-task totals and
\* the per-user totals both sum to the total duration of the valid records,
\* those with a missing user or task_type included.
C5_TotalsAgree ==
    l_pc = "returned" =>
        /\ SumTotals(out.time_per_task) = SumValid(1)
        /\ SumTotals(out.time_per_user) = SumValid(1)

\* C5 without the missing keys: when every valid record has a user and a
\* task_type, both aggregates sum to the total valid duration
C5_TotalsAgreeWhenKeysPresent ==
    (l_pc = "returned"
     /\ \A k \in 1..Len(df_original) :
           FailsACheck(k)
           \/ (~IsNa(df_original[k].user) /\ ~IsNa(df_original[k].task_type)))
    => /\ SumTotals(out.time_per_task) = SumValid(1)
       /\ SumTotals(out.time_per_user) = SumValid(1)

\* the index labels of invalid_rows
InvalidIndexes == { out.invalid_rows[k].index : k \in 1..Len(out.invalid_rows) }

\* an invalid row shows the values of the input row it comes from: a start or
\* duration_min that did not parse is still the text the input had
KeptVerbatim(r, row) ==
    /\ r.user = row.user
    /\ r.task_type = row.task_type
    /\ IsNa(r.start) => IsNa(row.start)
    /\ IsNa(r.duration_min) => IsNa(row.duration_min)

\* C7: invalid_rows holds exactly the records failing one of the three
\* checks, each record being valid or invalid and never both, and each
\* invalid row carries the values of its input record verbatim.
C7_InvalidRowsVerbatim ==
    l_pc = "returned" =>
        /\ InvalidIndexes = { k - 1 : k \in { j \in 1..Len(df_original) : FailsACheck(j) } }
        /\ Len(out.invalid_rows) = Cardinality(InvalidIndexes)
        /\ \A k \in 1..Len(out.invalid_rows) :
              KeptVerbatim(out.invalid_rows[k], df_original[out.invalid_rows[k].index + 1])

\* C7 without the verbatim part: the partition alone
C7_InvalidRowsPartition ==
    l_pc = "returned" =>
        /\ InvalidIndexes = { k - 1 : k \in { j \in 1..Len(df_original) : FailsACheck(j) } }
        /\ Len(out.invalid_rows) = Cardinality(InvalidIndexes)

\* the position of the row of a task type in time_per_task
PosInTimePerTask(tt) ==
    CHOOSE k \in 1..Len(out.time_per_task) : out.time_per_task[k].task_type = tt

\* top3_tasks is the right length, made of rows of time_per_task, in
\* non-increasing order, and leaves out no strictly greater total
Top3Ranked ==
    LET top == out.top3_tasks
        all == out.time_per_task
    IN  /\ Len(top) = Min(3, Len(all))
        /\ \A k \in 1..Len(top) : \E j \in 1..Len(all) : all[j] = top[k]
        /\ \A j, k \in 1..Len(top) : top[j] = top[k] => j = k
        /\ \A k \in 1..(Len(top) - 1) :
              top[k].total_minutes >= top[k + 1].total_minutes
        /\ \A j \in 1..Len(all) :
              (\A k \in 1..Len(top) : top[k] # all[j]) =>
                  \A k \in 1..Len(top) : all[j].total_minutes <= top[k].total_minutes

\* rows of top3_tasks with equal totals are in the order of time_per_task
Top3TiesStable ==
    \A j, k \in 1..Len(out.top3_tasks) :
        (j < k /\ out.top3_tasks[j].total_minutes = out.top3_tasks[k].total_minutes)
            => PosInTimePerTask(out.top3_tasks[j].task_type)
                 < PosInTimePerTask(out.top3_tasks[k].task_type)

\* C8: top3_tasks has length min(3, number of task types), its rows are rows
\* of time_per_task in non-increasing order of total_minutes, no task type
\* left out has a strictly greater total than one included, and rows with
\* equal totals keep the order they have in time_per_task.
C8_Top3StableTies ==
    l_pc = "returned" => (Top3Ranked /\ Top3TiesStable)

\* C8 without the order of equal totals: length, rows of time_per_task,
\* non-increasing order, no strictly greater total left out
C8_Top3RankedApartFromTies ==
    l_pc = "returned" => Top3Ranked

(***************************************************************************)
(* Properties of call_gemini_api.                                          *)
(***************************************************************************)
\* a candidate yields text: it is a str, and (strictly) not an empty one
YieldsText(v, strictly) == v.t = "str" /\ (strictly => v.s # << >>)

\* the first of the candidates that yields text, else the raw body
RECURSIVE FirstText(_, _, _)
FirstText(cands, text, strictly) ==
    IF cands = << >> THEN Str(text)
    ELSE IF YieldsText(Head(cands), strictly) THEN Head(cands)
         ELSE FirstText(Tail(cands), text, strictly)

\* field key of value v when v is a dict that has it, else None
Field(v, key) == IF v.t = "dict" /\ key \in DOMAIN v.d THEN v.d[key] ELSE None

\* choices[0] when choices is a non-empty list, else None
FirstChoice(data) ==
    LET choices == Field(data, KChoices)
    IN  IF choices.t = "list" /\ choices.l # << >> THEN choices.l[1] ELSE None

\* the decoding the claim describes: summary, choices[0] text, choices[0]
\* message content, output, raw body, the first that yields text
ClaimedDecode(data, text, strictly) ==
    FirstText(<< Field(data, KSummary),
                 Field(FirstChoice(data), KText),
                 Field(Field(FirstChoice(data), KMessage), KContent),
                 Field(data, KOutput) >>, text, strictly)

\* C6: a successful response is decoded by trying summary, choices[0] (text,
\* then message content), output and at last the raw body, returning the
\* first that yields text; a first choice without text or message content
\* goes on to output and the raw body instead of returning absent.  (An
\* empty text may or may not count as text: either reading is accepted.)
C6_FirstShapeThatYieldsText ==
    (a_pc = "returned" /\ a_resp # None /\ ~a_resp.failed /\ a_resp.data.t # "invalid")
        => \E strictly \in BOOLEAN :
              a_ret = ClaimedDecode(a_resp.data, a_resp.text, strictly)

\* C6 on the responses that have neither a summary field nor a non-empty
\* choices list: there the code does decode as claimed
C6_WithoutSummaryAndChoices ==
    (/\ a_pc = "returned" /\ a_resp # None /\ ~a_resp.failed
     /\ a_resp.data.t # "invalid"
     /\ KSummary \notin (IF a_resp.data.t = "dict" THEN DOMAIN a_resp.data.d ELSE {})
     /\ FirstChoice(a_resp.data) = None)
        => a_ret = ClaimedDecode(a_resp.data, a_resp.text, TRUE)

(***************************************************************************)
(* Properties of summarize_urls.                                           *)
(***************************************************************************)
\* the fetch returned no content: None, or an empty text
NoContent(html) == html.t = "none" \/ (html.t = "str" /\ html.s = << >>)

\* an optional text is there: neither None nor empty
Present(v) == v.t = "str" /\ v.s # << >>

\* the external client is configured and wanted
ExternalConfigured == use_gemini /\ Present(gemini_api_key) /\ Present(gemini_api_url)

\* the positions of the events of kind op for URL k
EventsOf(op, k) == { n \in 1..Len(events) : events[n] = <<op, k>> }

\* an event of kind op for URL k happened before position n
Before(op, k, n) == \E m \in EventsOf(op, k) : m < n

\* the extractive summary of the preview of a fetched page
ExtractiveOf(html) ==
    Str(simple_extractive_summary(extract_text_and_meta(html).text_preview,
                                  DefaultMaxSentences))

\* C1: one result per URL, in input order (exactly N once summarize_urls has
\* returned), and a URL whose fetch returned no content has notes
\* 'fetch_failed' and empty title, meta_description and summary.
C1_OneResultPerUrlInOrder ==
    /\ Len(results) <= Len(urls)
    /\ pc = "returned" => Len(results) = Len(urls)
    /\ \A k \in 1..Len(results) :
          /\ results[k].url = urls[k]
          /\ NoContent(hist[k].html) =>
                /\ results[k].notes = "fetch_failed"
                /\ results[k].title = << >>
                /\ results[k].meta_description = << >>
                /\ results[k].summary = Str(<< >>)

\* C1 witness: two different URLs, the first fetch failed, the second did not
C1_Witness ==
    /\ pc = "returned"
    /\ Len(urls) = 2 /\ urls[1] # urls[2]
    /\ Len(results) = 2
    /\ NoContent(hist[1].html)
    /\ ~NoContent(hist[2].html)

\* C2: after every URL, failed or not, a delay happens once its result is
\* recorded and before the next URL's fetch begins.
C2_DelayAfterEveryUrl ==
    /\ \A n \in 1..Len(events) :
          (events[n][1] = "fetch" /\ events[n][2] > 1)
              => Before("sleep", events[n][2] - 1, n)
    /\ pc = "returned" => \A k \in 1..Len(urls) : EventsOf("sleep", k) # {}

\* the notes and summary of result k, as the code decides them: an empty
\* text from the client counts as no summary
NotesAsCoded(k) ==
    IF ExternalConfigured
    THEN /\ hist[k].called
         /\ IF Present(hist[k].ret)
            THEN /\ results[k].notes = "generated_by_gemini"
                 /\ results[k].summary = hist[k].ret
            ELSE /\ results[k].notes = "gemini_failed_fallback_extractive"
                 /\ results[k].summary = ExtractiveOf(hist[k].html)
    ELSE /\ ~hist[k].called
         /\ results[k].notes = "no_gemini_local_extractive"
         /\ results[k].summary = ExtractiveOf(hist[k].html)

\* the notes and summary of result k, as the claim states them: any text
\* from the client, an empty one too, is the summary
NotesAsClaimed(k) ==
    IF ExternalConfigured
    THEN IF hist[k].ret.t # "none"
         THEN /\ results[k].notes = "generated_by_gemini"
              /\ results[k].summary = hist[k].ret
         ELSE /\ results[k].notes = "gemini_failed_fallback_extractive"
              /\ results[k].summary = ExtractiveOf(hist[k].html)
    ELSE /\ results[k].notes = "no_gemini_local_extractive"
         /\ results[k].summary = ExtractiveOf(hist[k].html)

\* C4 as claimed: for every fetched URL the notes are generated_by_gemini
\* whenever the configured client returns non-absent text, empty or not.
C4_NotesAnyTextCounts ==
    \A k \in 1..Len(results) : ~NoContent(hist[k].html) => NotesAsClaimed(k)

\* C4 amended: for every fetched URL the notes are generated_by_gemini, with
\* the client's text as summary, when the configured client returns non-empty
\* text; gemini_failed_fallback_extractive, with the extractive summary of
\* the preview, when it returns absent or empty text; and
\* no_gemini_local_extractive, with the extractive summary, when use_gemini
\* is false or the key or endpoint is missing.
C4_NotesNonEmptyTextCounts ==
    \A k \in 1..Len(results) : ~NoContent(hist[k].html) => NotesAsCoded(k)

\* C4 witness: the client returned an empty text and the result fell back
C4_Witness ==
    \E k \in 1..Len(results) :
        /\ ExternalConfigured
        /\ ~NoContent(hist[k].html)
        /\ hist[k].called
        /\ hist[k].ret = Str(<< >>)
        /\ results[k].notes = "gemini_failed_fallback_extractive"

\* C10: the external client is invoked at most once per URL, only after that
\* URL's fetch succeeded and before its result is recorded, never when
\* use_gemini is false or the key or endpoint is missing; and no network
\* request of URL k+1 starts before the result of URL k is appended.
C10_ClientOncePerUrlSequential ==
    /\ \A k \in 1..Len(urls) : Cardinality(EventsOf("call", k)) <= 1
    /\ \A n \in 1..Len(events) :
          LET k == events[n][2]
          IN  /\ events[n][1] = "call" =>
                    /\ ExternalConfigured
                    /\ Before("fetch", k, n)
                    /\ ~NoContent(hist[k].html)
                    /\ ~Before("append", k, n)
              /\ (events[n][1] \in {"fetch", "call"} /\ k > 1) =>
                    Before("append", k - 1, n)

\* C10 witness: the client was invoked for the second URL, after the first
\* URL's result, and summarize_urls returned
C10_Witness ==
    /\ pc = "returned"
    /\ EventsOf("call", 1) # {}
    /\ EventsOf("call", 2) # {}
    /\ Len(results) = 2

(***************************************************************************)
(* Specification of the summarizer alone.                                  *)
(***************************************************************************)
SumArgs ==
    /\ s_text \in Texts
    /\ s_max \in 1..MaxK
    /\ s_out = << >>
    /\ s_pc = "call"

Summarize ==
    /\ s_pc = "call"
    /\ s_out' = simple_extractive_summary(s_text, s_max)
    /\ s_pc' = "returned"
    /\ UNCHANGED <<s_text, s_max>>
    /\ UNCHANGED <<apiVars, urlVars, logVars>>

SumInit == SumArgs /\ ApiIdle /\ UrlIdle /\ LogIdle

SumNext == Summarize

SpecSum == SumInit /\ [][SumNext]_vars

(***************************************************************************)
(* Specification of the external client alone: one call.                   *)
(***************************************************************************)
ApiArgs ==
    /\ a_key \in ApiKeys
    /\ a_url \in ApiUrls
    /\ a_resp = None
    /\ a_ret = None
    /\ a_pc = "call"

\* absent key or endpoint: no request is made
ApiNoRequest ==
    /\ a_pc = "call"
    /\ ~(Truthy(a_key) /\ Truthy(a_url))
    /\ a_ret' = call_gemini_api(a_key, a_url, None)
    /\ a_pc' = "returned"
    /\ UNCHANGED <<a_key, a_url, a_resp>>
    /\ UNCHANGED <<sumVars, urlVars, logVars>>

\* the one POST and the decoding of its response
ApiRequest ==
    /\ a_pc = "call"
    /\ Truthy(a_key) /\ Truthy(a_url)
    /\ \E resp \in Responses :
          /\ a_resp' = resp
          /\ a_ret' = call_gemini_api(a_key, a_url, resp)
    /\ a_pc' = "returned"
    /\ UNCHANGED <<a_key, a_url>>
    /\ UNCHANGED <<sumVars, urlVars, logVars>>

ApiInit == ApiArgs /\ SumIdle /\ UrlIdle /\ LogIdle

ApiNext == ApiNoRequest \/ ApiRequest

SpecApi == ApiInit /\ [][ApiNext]_vars

(***************************************************************************)
(* Properties of the summarizer.                                           *)
(***************************************************************************)
\* whether sequence a is a subsequence (by position) of sequence b
RECURSIVE IsSubseq(_, _)
IsSubseq(a, b) ==
    IF a = << >> THEN TRUE
    ELSE IF b = << >> THEN FALSE
         ELSE IF Head(a) = Head(b) THEN IsSubseq(Tail(a), Tail(b))
              ELSE IsSubseq(a, Tail(b))

\* position j is ranked before position k: higher score, or equal score and earlier
RankedBefore(counted, sentences, j, k) ==
    \/ Score(counted, sentences[j]) > Score(counted, sentences[k])
    \/ /\ Score(counted, sentences[j]) = Score(counted, sentences[k])
       /\ j < k

\* the positions of the n highest-scoring sentences, earlier first among equals
SelectedPositions(counted, sentences, n) ==
    { k \in 1..Len(sentences) :
        Cardinality({ j \in 1..Len(sentences) :
                        RankedBefore(counted, sentences, j, k) }) < n }

\* the sentences at the positions of P, in text order
AtPositions(sentences, P) ==
    LET idx == SelectSeq([k \in 1..Len(sentences) |-> k], LAMBDA k : k \in P)
    IN  [m \in 1..Len(idx) |-> sentences[idx[m]]]

\* C3: the summary holds at most max_sentences sentences, and they are a
\* subsequence (by position) of the sentences of the input, also when a
\* sentence text occurs at several positions.
C3_AtMostMaxSentences ==
    s_pc = "returned" =>
        /\ Len(SplitSentences(s_out)) <= s_max
        /\ IsSubseq(SplitSentences(s_out), SplitSentences(s_text))

\* C9: with more than max_sentences sentences, the summary is made of the
\* max_sentences highest-scoring sentences (earlier first among equal scores)
\* in text order, or of the first max_sentences sentences when no word counts.
C9_TopScoringInTextOrder ==
    LET sentences == SplitSentences(s_text)
        counted == Counted(FindWords(s_text))
    IN  (s_pc = "returned" /\ Len(sentences) > s_max) =>
            IF counted = << >>
            THEN s_out = Strip(Join(SubSeq(sentences, 1, s_max)))
            ELSE s_out = Strip(Join(AtPositions(sentences,
                              SelectedPositions(counted, sentences, s_max))))

\* C9 restricted to texts whose sentences are pairwise different
C9_DistinctSentencesOnly ==
    LET sentences == SplitSentences(s_text)
    IN  (\A j, k \in 1..Len(sentences) : sentences[j] = sentences[k] => j = k)
            => C9_TopScoringInTextOrder

====
